---- MODULE Spec2Model ----
(***************************************************************************)
(* The navigation/session controller of the trace explorer (src/app.rs):   *)
(* the App struct, the event loop of run() and the helpers it calls.  The  *)
(* diff engine, the expansion-state store and the tree materializer live   *)
(* in crate::diff and crate::tree; they are modelled from their contracts  *)
(* in spec.md sections 4.2 to 4.4.                                         *)
(***************************************************************************)
EXTENDS Integers, Sequences, FiniteSets, TLC

VARIABLES
    trace,            \* App.trace, by name: which of Traces is loaded (never written)
    app,              \* the App struct of run(), minus trace
    pc,               \* position in run(): "frame", "event", "done", "panicked"
    event,            \* the value event::read() returned in this iteration
    viewport_height,  \* local of the loop body (line 71)
    tree_lines        \* local of the loop body (line 77)

vars == <<trace, app, pc, event, viewport_height, tree_lines>>

\* Largest terminal height terminal.size() reports in the model.
MaxTermHeight == 7

\* let padding = 2 in ensure_cursor_visible.
padding == 2

\* usize arithmetic wraps modulo 2^64 when overflow checks are off.  TLC's
\* integers have 32 bits, so the model wraps modulo 2^30: like 2^64 it lies
\* far above every index and height the model reaches, and the comparisons
\* and saturating subtractions that read a wrapped value see no difference.
UsizeModulus == 2 ^ 30

Min(a, b) == IF a < b THEN a ELSE b

Max(a, b) == IF a > b THEN a ELSE b

\* usize::saturating_sub
SatSub(a, b) == IF a >= b THEN a - b ELSE 0

\* usize `-` as the release profile computes it
WrapSub(a, b) == (a - b) % UsizeModulus

RECURSIVE Concat(_)
\* Iterator::extend over a sequence of line sequences
Concat(ss) == IF ss = <<>> THEN <<>> ELSE Head(ss) \o Concat(Tail(ss))

(***************************************************************************)
(* Value model (spec.md 3, 4.1).  A value is a record                      *)
(*   [kind, text, items], kind in {"Scalar", "Sequence", "Mapping"},       *)
(* items the ordered children, each [key, val]; a Sequence child's key is  *)
(* its index, written as text, which is also its path segment.             *)
(***************************************************************************)
IndexText == <<"0", "1", "2", "3", "4", "5", "6", "7", "8", "9">>

IdxSeg(i) == IndexText[i + 1]

Scalar(t) == [kind |-> "Scalar", text |-> t, items |-> <<>>]

Sequence(vs) ==
    [kind |-> "Sequence", text |-> "",
     items |-> [i \in 1..Len(vs) |-> [key |-> IdxSeg(i - 1), val |-> vs[i]]]]

Mapping(es) == [kind |-> "Mapping", text |-> "", items |-> es]

Entry(k, v) == [key |-> k, val |-> v]

Keys(items) == {items[i].key : i \in 1..Len(items)}

Lookup(items, k) == items[CHOOSE i \in 1..Len(items) : items[i].key = k].val

(***************************************************************************)
(* Diff engine (spec.md 4.2): a DiffResult is the set of [path, kind]      *)
(* entries that are not Unchanged.                                         *)
(***************************************************************************)
RECURSIVE DiffValue(_, _, _)
RECURSIVE DiffEntries(_, _, _)

\* Paired descent at one path: kinds differ -> Modified, no recursion; two
\* scalars -> Modified iff the texts differ; two containers of one kind ->
\* their children, paired.
DiffValue(prev, curr, path) ==
    IF prev.kind # curr.kind
    THEN {[path |-> path, kind |-> "Modified"]}
    ELSE IF prev.kind = "Scalar"
    THEN IF prev.text # curr.text
         THEN {[path |-> path, kind |-> "Modified"]}
         ELSE {}
    ELSE DiffEntries(prev.items, curr.items, path)

\* Children paired by key (a Sequence's keys are its indices, so the pairing
\* is positional there): only in curr -> Added at the child's root, only in
\* prev -> Removed at the child's root, in both -> recurse.
DiffEntries(prev, curr, path) ==
    UNION {
        IF k \notin Keys(prev)
        THEN {[path |-> Append(path, k), kind |-> "Added"]}
        ELSE IF k \notin Keys(curr)
        THEN {[path |-> Append(path, k), kind |-> "Removed"]}
        ELSE DiffValue(Lookup(prev, k), Lookup(curr, k), Append(path, k))
        : k \in Keys(prev) \cup Keys(curr) }

compute_diff(prev, curr) == DiffEntries(prev, curr, <<>>)

\* diff.changes.keys()
ChangedPaths(diff) == {e.path : e \in diff}

StrictPrefixes(path) == {SubSeq(path, 1, n) : n \in 1..(Len(path) - 1)}

\* The DiffKind shown for a path: its own entry, else the kind of an Added
\* or Removed ancestor, else Unchanged.
DiffKindAt(diff, path) ==
    IF \E e \in diff : e.path = path
    THEN (CHOOSE e \in diff : e.path = path).kind
    ELSE IF \E e \in diff : e.path \in StrictPrefixes(path)
                            /\ e.kind \in {"Added", "Removed"}
    THEN (CHOOSE e \in diff : e.path \in StrictPrefixes(path)
                              /\ e.kind \in {"Added", "Removed"}).kind
    ELSE "Unchanged"

(***************************************************************************)
(* Expansion-state store (spec.md 4.3): the set of open paths.             *)
(***************************************************************************)
ExpansionNew == {}

ExpansionToggle(expansion, path) ==
    IF path \in expansion THEN expansion \ {path} ELSE expansion \cup {path}

ExpansionClear(expansion) == {}

ExpansionExpandAll(expansion, paths) == expansion \cup paths

\* Every strict ancestor prefix of every changed path is inserted.
ExpansionExpandToChanges(expansion, changed_paths) ==
    expansion \cup UNION {StrictPrefixes(p) : p \in changed_paths}

(***************************************************************************)
(* Tree materializer (spec.md 4.4).  A TreeLine is                         *)
(*   [path, depth, expandable, diff];                                      *)
(* the styled spans and the display width only shape a line's text, which  *)
(* the controller never reads, and are left out.                           *)
(***************************************************************************)
Expandable(value) == value.kind \in {"Sequence", "Mapping"} /\ Len(value.items) >= 1

RECURSIVE render_value(_, _, _, _, _, _)
render_value(name, value, path, expansion, diff, depth) ==
    <<[path |-> path, depth |-> depth, expandable |-> Expandable(value),
       diff |-> DiffKindAt(diff, path)]>>
    \o (IF path \in expansion
        THEN Concat([i \in 1..Len(value.items) |->
                 render_value(value.items[i].key, value.items[i].val,
                              Append(path, value.items[i].key),
                              expansion, diff, depth + 1)])
        ELSE <<>>)

(***************************************************************************)
(* The traces a session is started on.  A snapshot is the ordered list of  *)
(* (name, value) entries of State.values.                                  *)
(***************************************************************************)
\* spec.md 8: {x: 1, y: [1,2]} -> {x: 2, y: [1,2,3]}, then y shrinks.
TraceScenario == <<
    <<Entry("x", Scalar("1")), Entry("y", Sequence(<<Scalar("1"), Scalar("2")>>))>>,
    <<Entry("x", Scalar("2")),
      Entry("y", Sequence(<<Scalar("1"), Scalar("2"), Scalar("3")>>))>>,
    <<Entry("x", Scalar("2")), Entry("y", Sequence(<<Scalar("1")>>))>> >>

\* Nested mappings: a deep scalar change, then a removed key, a kind change
\* (mapping -> scalar), an added subtree and top-level names coming and going.
TraceNested == <<
    <<Entry("m", Mapping(<<Entry("a", Scalar("1")),
                           Entry("b", Mapping(<<Entry("c", Scalar("1")),
                                                Entry("d", Scalar("2"))>>))>>)),
      Entry("e", Sequence(<<>>)), Entry("r", Scalar("1"))>>,
    <<Entry("m", Mapping(<<Entry("a", Scalar("1")),
                           Entry("b", Mapping(<<Entry("c", Scalar("2")),
                                                Entry("d", Scalar("2"))>>))>>)),
      Entry("e", Sequence(<<>>)), Entry("r", Scalar("1"))>>,
    <<Entry("m", Mapping(<<Entry("b", Scalar("5")),
                           Entry("k", Sequence(<<Scalar("7")>>))>>)),
      Entry("e", Sequence(<<>>)), Entry("z", Scalar("1"))>> >>

\* A snapshot without values, then one with a list.
TraceEmptyFirst == <<
    <<>>,
    <<Entry("y", Sequence(<<Scalar("1"), Scalar("2")>>))>> >>

\* A single snapshot with more lines than any viewport of the model.
TraceLong == <<
    <<Entry("x", Scalar("1")),
      Entry("y", Sequence(<<Scalar("1"), Scalar("2"), Scalar("3"), Scalar("4"),
                            Scalar("5"), Scalar("6"), Scalar("7")>>))>> >>

Traces == {"scenario", "nested", "empty_first", "long"}

\* trace.states of the trace of that name.
States(t) ==
    CASE t = "scenario" -> TraceScenario
      [] t = "nested" -> TraceNested
      [] t = "empty_first" -> TraceEmptyFirst
      [] t = "long" -> TraceLong

(***************************************************************************)
(* App and the helpers of run() (src/app.rs).  current_state, cursor and   *)
(* scroll_offset are 0-based as in the source; TLA+ sequences are 1-based. *)
(***************************************************************************)
AppNew(auto_expand) ==
    [current_state |-> 0, should_quit |-> FALSE, expansion |-> ExpansionNew,
     cursor |-> 0, scroll_offset |-> 0, auto_expand |-> auto_expand]

\* The two subtractions of lines 47 and 49 that go below zero:
\* scroll_offset + viewport_height - padding, and, when the branch of line
\* 47 is taken, viewport_height - padding - 1.
EnsureUnderflows(a, vh) ==
    /\ ~(a.cursor < a.scroll_offset + padding)
    /\ \/ a.scroll_offset + vh < padding
       \/ /\ a.cursor >= a.scroll_offset + vh - padding
          /\ \/ vh < padding
             \/ vh - padding < 1

\* App::ensure_cursor_visible with wrapping subtraction.
ensure_cursor_visible(a, vh) ==
    IF a.cursor < a.scroll_offset + padding
    THEN [a EXCEPT !.scroll_offset = SatSub(a.cursor, padding)]
    ELSE IF a.cursor >= WrapSub(a.scroll_offset + vh, padding)
    THEN [a EXCEPT !.scroll_offset =
                       SatSub(a.cursor, WrapSub(WrapSub(vh, padding), 1))]
    ELSE a

compute_diff_for_state(a, tr) ==
    IF a.current_state = 0
    THEN {}
    ELSE compute_diff(tr[a.current_state], tr[a.current_state + 1])

\* auto_expand_changes that clears and inserts nothing.
AutoExpandClearOnly(a, tr) == [a EXCEPT !.expansion = ExpansionClear(a.expansion)]

\* auto_expand_changes without the clear of line 231.
AutoExpandNoClear(a, tr) ==
    [a EXCEPT !.expansion =
         ExpansionExpandToChanges(a.expansion,
                                  ChangedPaths(compute_diff_for_state(a, tr)))]

auto_expand_changes(a, tr) ==
    LET cleared == [a EXCEPT !.expansion = ExpansionClear(a.expansion)]
        diff == compute_diff_for_state(cleared, tr)
    IN  [cleared EXCEPT !.expansion =
             ExpansionExpandToChanges(cleared.expansion, ChangedPaths(diff))]

build_tree_lines(a, tr, diff) ==
    IF a.current_state < Len(tr)
    THEN LET values == tr[a.current_state + 1]
         IN  Concat([i \in 1..Len(values) |->
                 render_value(values[i].key, values[i].val, <<values[i].key>>,
                              a.expansion, diff, 0)])
    ELSE <<>>

\* The lines a frame materializes for an App value (lines 74 and 77).
FrameLines(a, tr) == build_tree_lines(a, tr, compute_diff_for_state(a, tr))

\* ClampCursor with the bound test off by one (`>` for `>=`).
ClampCursorStrict(a, line_count) ==
    IF a.cursor > line_count /\ line_count > 0
    THEN [a EXCEPT !.cursor = line_count - 1]
    ELSE a

\* Lines 80-83.
ClampCursor(a, line_count) ==
    IF a.cursor >= line_count /\ line_count > 0
    THEN [a EXCEPT !.cursor = line_count - 1]
    ELSE a

\* tree_lines.get(i): whether there is a line at 0-based index i.
HasLine(lines, i) == i < Len(lines)

LineAt(lines, i) == lines[i + 1]

(***************************************************************************)
(* The arms of the match on event::read() (lines 90-204), each the App     *)
(* value it leaves.  lines and vh are the frame's tree_lines and           *)
(* viewport_height; line_count is Len(lines).                              *)
(***************************************************************************)
\* KeyCode::Char('q') | KeyCode::Esc
KeyQuit(a) == [a EXCEPT !.should_quit = TRUE]

\* KeyLeft that wraps from the first snapshot to the last.
KeyLeftWraps(a, tr) ==
    LET b == [a EXCEPT !.current_state = IF @ > 0 THEN @ - 1 ELSE Len(tr) - 1,
                       !.cursor = 0, !.scroll_offset = 0]
    IN  IF b.auto_expand THEN auto_expand_changes(b, tr) ELSE b

\* KeyLeft that runs auto_expand_changes before it moves the index.
KeyLeftExpandsFirst(a, tr) ==
    IF a.current_state > 0
    THEN LET b == IF a.auto_expand THEN auto_expand_changes(a, tr) ELSE a
         IN  [b EXCEPT !.current_state = @ - 1, !.cursor = 0, !.scroll_offset = 0]
    ELSE a

\* KeyLeft that does not test auto_expand.
KeyLeftAlwaysExpands(a, tr) ==
    IF a.current_state > 0
    THEN auto_expand_changes([a EXCEPT !.current_state = @ - 1, !.cursor = 0,
                                       !.scroll_offset = 0], tr)
    ELSE a

\* KeyCode::Left
KeyLeft(a, tr) ==
    IF a.current_state > 0
    THEN LET b == [a EXCEPT !.current_state = @ - 1, !.cursor = 0,
                            !.scroll_offset = 0]
         IN  IF b.auto_expand THEN auto_expand_changes(b, tr) ELSE b
    ELSE a

\* KeyRight without the scroll reset of line 108.
KeyRightKeepsScroll(a, tr) ==
    IF a.current_state + 1 < Len(tr)
    THEN LET b == [a EXCEPT !.current_state = @ + 1, !.cursor = 0]
         IN  IF b.auto_expand THEN auto_expand_changes(b, tr) ELSE b
    ELSE a

\* KeyRight that clears the expansion set before it tests the bound.
KeyRightClearsFirst(a, tr) ==
    LET c == IF a.auto_expand THEN [a EXCEPT !.expansion = ExpansionClear(@)] ELSE a
    IN  IF c.current_state + 1 < Len(tr)
        THEN LET b == [c EXCEPT !.current_state = @ + 1, !.cursor = 0,
                                !.scroll_offset = 0]
             IN  IF b.auto_expand THEN auto_expand_changes(b, tr) ELSE b
        ELSE c

\* KeyCode::Right
KeyRight(a, tr) ==
    IF a.current_state + 1 < Len(tr)
    THEN LET b == [a EXCEPT !.current_state = @ + 1, !.cursor = 0,
                            !.scroll_offset = 0]
         IN  IF b.auto_expand THEN auto_expand_changes(b, tr) ELSE b
    ELSE a

\* KeyCode::Up
KeyUp(a) == IF a.cursor > 0 THEN [a EXCEPT !.cursor = @ - 1] ELSE a

\* KeyCode::Down
KeyDown(a, lines) ==
    IF a.cursor + 1 < Len(lines) THEN [a EXCEPT !.cursor = @ + 1] ELSE a

\* KeyCode::PageUp
KeyPageUp(a, vh) == [a EXCEPT !.cursor = SatSub(a.cursor, SatSub(vh, 2))]

\* KeyPageDown that steps by the whole viewport height.
KeyPageDownFullPage(a, lines, vh) ==
    [a EXCEPT !.cursor = Min(a.cursor + vh, SatSub(Len(lines), 1))]

\* KeyCode::PageDown
KeyPageDown(a, lines, vh) ==
    [a EXCEPT !.cursor = Min(a.cursor + SatSub(vh, 2), SatSub(Len(lines), 1))]

\* KeyHome that also goes back to the first snapshot.
KeyHomeFirstState(a) == [a EXCEPT !.cursor = 0, !.current_state = 0]

\* KeyCode::Home
KeyHome(a) == [a EXCEPT !.cursor = 0]

\* KeyCode::End
KeyEnd(a, lines) ==
    IF Len(lines) > 0 THEN [a EXCEPT !.cursor = Len(lines) - 1] ELSE a

\* KeyEnter without the test of line 142.
KeyEnterAnyLine(a, lines) ==
    IF HasLine(lines, a.cursor)
    THEN [a EXCEPT !.expansion =
                       ExpansionToggle(@, LineAt(lines, a.cursor).path)]
    ELSE a

\* KeyCode::Enter
KeyEnter(a, lines) ==
    IF HasLine(lines, a.cursor) /\ LineAt(lines, a.cursor).expandable
    THEN [a EXCEPT !.expansion =
                       ExpansionToggle(@, LineAt(lines, a.cursor).path)]
    ELSE a

\* KeyCode::Char('c')
KeyCharC(a) == [a EXCEPT !.expansion = ExpansionClear(@)]

\* KeyCharE without the filter of line 155.
KeyCharEAllLines(a, lines) ==
    [a EXCEPT !.expansion =
         ExpansionExpandAll(@, {lines[i].path : i \in 1..Len(lines)})]

\* KeyCode::Char('e')
KeyCharE(a, lines) ==
    LET expandable_paths ==
            {lines[i].path : i \in {j \in 1..Len(lines) : lines[j].expandable}}
    IN  [a EXCEPT !.expansion = ExpansionExpandAll(@, expandable_paths)]

\* MouseLeftDown that maps the row to a line without the scroll offset.
MouseLeftDownIgnoresScroll(a, lines, row) ==
    IF row >= 2 /\ (row - 2) < Len(lines)
    THEN LET clicked_line == row - 2
             b == [a EXCEPT !.cursor = clicked_line]
         IN  IF LineAt(lines, clicked_line).expandable
             THEN [b EXCEPT !.expansion =
                                ExpansionToggle(@, LineAt(lines, clicked_line).path)]
             ELSE b
    ELSE a

\* MouseLeftDown without the header test of line 169.
MouseLeftDownNoHeader(a, lines, row) ==
    IF a.scroll_offset + SatSub(row, 2) < Len(lines)
    THEN LET clicked_line == a.scroll_offset + SatSub(row, 2)
             b == [a EXCEPT !.cursor = clicked_line]
         IN  IF LineAt(lines, clicked_line).expandable
             THEN [b EXCEPT !.expansion =
                                ExpansionToggle(@, LineAt(lines, clicked_line).path)]
             ELSE b
    ELSE a

\* MouseEventKind::Down(MouseButton::Left)
MouseLeftDown(a, lines, row) ==
    IF row >= 2 /\ a.scroll_offset + (row - 2) < Len(lines)
    THEN LET clicked_line == a.scroll_offset + (row - 2)
             b == [a EXCEPT !.cursor = clicked_line]
         IN  IF LineAt(lines, clicked_line).expandable
             THEN [b EXCEPT !.expansion =
                                ExpansionToggle(@, LineAt(lines, clicked_line).path)]
             ELSE b
    ELSE a

\* MouseEventKind::ScrollUp
MouseScrollUp(a, vh) ==
    LET b == [a EXCEPT !.scroll_offset = SatSub(@, 3)]
    IN  IF b.cursor >= b.scroll_offset + vh
        THEN [b EXCEPT !.cursor = SatSub(b.scroll_offset + vh, 1)]
        ELSE b

\* MouseEventKind::ScrollDown
MouseScrollDown(a, lines, vh) ==
    LET max_scroll == SatSub(Len(lines), vh)
        b == [a EXCEPT !.scroll_offset = Min(@ + 3, max_scroll)]
    IN  IF b.cursor < b.scroll_offset
        THEN [b EXCEPT !.cursor = b.scroll_offset]
        ELSE b

(***************************************************************************)
(* The state machine of run().                                             *)
(***************************************************************************)
\* app.trace.states
states == States(trace)

NoEvent == [code |-> "None", row |-> 0]

Init ==
    /\ trace \in Traces
    /\ \E auto_expand \in BOOLEAN : app = AppNew(auto_expand)
    /\ pc = "frame"
    /\ event = NoEvent
    /\ viewport_height = 0
    /\ tree_lines = <<>>

\* Lines 80-86 for a frame whose line list and viewport height are known.
FrameAdjust(a, lines, vh) == ensure_cursor_visible(ClampCursor(a, Len(lines)), vh)

\* The App value a frame paints (lines 74-86) on a terminal of the given
\* height.
FrameApp(a, tr, terminal_height) ==
    FrameAdjust(a, FrameLines(a, tr), SatSub(terminal_height, 2))

\* Lines 66-88: size the viewport, diff, materialize, clamp the cursor,
\* scroll it into view, draw.
Frame ==
    /\ pc = "frame"
    /\ LET lines == FrameLines(app, states)
       IN  /\ tree_lines' = lines
           /\ \E terminal_height \in 0..MaxTermHeight :
                 /\ viewport_height' = SatSub(terminal_height, 2)
                 /\ app' = FrameAdjust(app, lines, SatSub(terminal_height, 2))
    /\ event' = NoEvent
    /\ pc' = "event"
    /\ UNCHANGED trace

\* The same lines when overflow checks are on and a subtraction of
\* ensure_cursor_visible goes below zero: the thread panics.
FramePanic ==
    /\ pc = "frame"
    /\ LET lines == FrameLines(app, states)
           clamped == ClampCursor(app, Len(lines))
       IN  /\ tree_lines' = lines
           /\ app' = clamped
           /\ \E terminal_height \in 0..MaxTermHeight :
                 /\ EnsureUnderflows(clamped, SatSub(terminal_height, 2))
                 /\ viewport_height' = SatSub(terminal_height, 2)
    /\ event' = NoEvent
    /\ pc' = "panicked"
    /\ UNCHANGED trace

\* One event read at line 90 and matched: the App value its arm leaves; the
\* loop condition of line 65 is then evaluated.
Handle(code, row, a) ==
    /\ pc = "event"
    /\ event' = [code |-> code, row |-> row]
    /\ app' = a
    /\ pc' = IF a.should_quit THEN "done" ELSE "frame"
    /\ UNCHANGED <<trace, viewport_height, tree_lines>>

Quit == Handle("Quit", 0, KeyQuit(app))

PrevState == Handle("Left", 0, KeyLeft(app, states))

NextState == Handle("Right", 0, KeyRight(app, states))

CursorUp == Handle("Up", 0, KeyUp(app))

CursorDown == Handle("Down", 0, KeyDown(app, tree_lines))

PageUp == Handle("PageUp", 0, KeyPageUp(app, viewport_height))

PageDown == Handle("PageDown", 0, KeyPageDown(app, tree_lines, viewport_height))

Home == Handle("Home", 0, KeyHome(app))

End == Handle("End", 0, KeyEnd(app, tree_lines))

ToggleAtCursor == Handle("Enter", 0, KeyEnter(app, tree_lines))

CollapseAll == Handle("c", 0, KeyCharC(app))

ExpandAll == Handle("e", 0, KeyCharE(app, tree_lines))

\* mouse.row is a row of the terminal, whose height may have changed since
\* line 67 read it.
SelectLine ==
    \E row \in 0..(MaxTermHeight - 1) :
        Handle("MouseLeftDown", row, MouseLeftDown(app, tree_lines, row))

ScrollUp == Handle("ScrollUp", 0, MouseScrollUp(app, viewport_height))

ScrollDown ==
    Handle("ScrollDown", 0, MouseScrollDown(app, tree_lines, viewport_height))

\* The `_ => {}` arms of lines 160, 200 and 203.
IgnoredEvent == Handle("Other", 0, app)

Next ==
    \/ Frame
    \/ FramePanic
    \/ Quit
    \/ PrevState
    \/ NextState
    \/ CursorUp
    \/ CursorDown
    \/ PageUp
    \/ PageDown
    \/ Home
    \/ End
    \/ ToggleAtCursor
    \/ CollapseAll
    \/ ExpandAll
    \/ SelectLine
    \/ ScrollUp
    \/ ScrollDown
    \/ IgnoredEvent

Spec == Init /\ [][Next]_vars

line_count == Len(tree_lines)

Painted == pc = "event"

(***************************************************************************)
(* Properties.                                                             *)
(***************************************************************************)
LastState == Len(states) - 1

\* C1: at every paint the cursor is a valid line index,
\* 0 <= cursor < max(line_count, 1).
CursorInBounds ==
    Painted => app.cursor >= 0 /\ app.cursor < Max(line_count, 1)

\* C1 witness: a frame is about to run with the cursor past the end of the
\* list it will materialize (CollapseAll shrank the list under the cursor).
CursorPastEndBeforeFrame ==
    /\ pc = "frame"
    /\ event.code = "c"
    /\ Len(FrameLines(app, states)) > 0
    /\ app.cursor >= Len(FrameLines(app, states))

\* C2 as claimed: at every paint the scroll offset lies in
\* [0, line_count - viewport_height], the upper bound taken as 0 when
\* line_count <= viewport_height.
ScrollInBounds ==
    Painted =>
        /\ app.scroll_offset >= 0
        /\ app.scroll_offset <= SatSub(line_count, viewport_height)

\* C3: PrevState at index 0 and NextState at the last index change nothing
\* of the App (index, cursor, scroll offset, expansion set), auto-expand or
\* not.
BoundaryNavIsNoOp ==
    [][ /\ (PrevState /\ app.current_state = 0 => app' = app)
        /\ (NextState /\ app.current_state = LastState => app' = app) ]_vars

\* C3 witness: NextState was handled at the last index of a trace of several
\* snapshots with auto-expand on, and an expansion the new diff would not
\* have produced is still open.
BoundaryNavKeptExpansion ==
    /\ pc = "frame"
    /\ event.code = "Right"
    /\ app.current_state = LastState
    /\ LastState > 0
    /\ app.auto_expand
    /\ app.expansion # auto_expand_changes(app, states).expansion
    /\ app.cursor > 0

\* A navigation step that moved the index with auto-expand on.
AutoNav ==
    /\ PrevState \/ NextState
    /\ app.auto_expand
    /\ app'.current_state # app.current_state

LinePaths(lines) == {lines[i].path : i \in 1..Len(lines)}

\* C4 as claimed: after a navigation with auto-expand, every changed path of
\* the new diff (Added, Removed or Modified) has all its strict ancestors
\* open and a line of its own in the list materialized for the new snapshot.
AutoExpandRevealsEveryChange ==
    [][AutoNav =>
          \A e \in compute_diff_for_state(app', states) :
              /\ StrictPrefixes(e.path) \subseteq app'.expansion
              /\ e.path \in LinePaths(FrameLines(app', states))]_vars

\* C4 amended: the ancestors of every changed path are open, and every Added
\* or Modified path has a line in the list materialized for the new
\* snapshot (a Removed path is no node of that snapshot and has none).
AutoExpandRevealsPresentChanges ==
    [][AutoNav =>
          \A e \in compute_diff_for_state(app', states) :
              /\ StrictPrefixes(e.path) \subseteq app'.expansion
              /\ e.kind \in {"Added", "Modified"}
                    => e.path \in LinePaths(FrameLines(app', states))
              /\ e.kind = "Removed"
                    => e.path \notin LinePaths(FrameLines(app', states))]_vars

\* C4 witness: PrevState arrived at an index above 0 with auto-expand on and
\* the diff there has a change three levels deep.
AutoExpandedDeepChange ==
    /\ pc = "frame"
    /\ event.code = "Left"
    /\ app.current_state >= 1
    /\ app.auto_expand
    /\ \E e \in compute_diff_for_state(app, states) :
          Len(e.path) >= 3 /\ e.kind = "Modified"

\* C5: a navigation with auto-expand replaces the expansion set by
\* expand_to_changes of the empty set and the new diff's changed paths.
AutoExpandReplacesExpansion ==
    [][AutoNav =>
          app'.expansion =
              ExpansionExpandToChanges(
                  {}, ChangedPaths(compute_diff_for_state(app', states)))]_vars

\* C5 witness: PrevState arrived at an index above 0 with auto-expand on, and
\* a container that was open in the frame before it is now closed.
AutoExpandDroppedOpenPath ==
    /\ pc = "frame"
    /\ event.code = "Left"
    /\ app.current_state >= 1
    /\ app.auto_expand
    /\ \E i \in 1..Len(tree_lines) :
          /\ tree_lines[i].depth > 0
          /\ SubSeq(tree_lines[i].path, 1, Len(tree_lines[i].path) - 1)
                \notin app.expansion

\* C6: Enter on a line that is not expandable, or with no line at the
\* cursor, leaves the App as it is, and the next frame has as many lines.
ToggleOnLeafIsNoOp ==
    [][ToggleAtCursor
         /\ (~HasLine(tree_lines, app.cursor)
             \/ ~LineAt(tree_lines, app.cursor).expandable)
       => /\ app' = app
          /\ Len(FrameLines(app', states)) = Len(tree_lines)]_vars

\* C6 witness: Enter was handled on a line that is not expandable while its
\* path is in the expansion set (a container that became a scalar).
ToggledLeafWithOpenPath ==
    /\ pc = "frame"
    /\ event.code = "Enter"
    /\ HasLine(tree_lines, app.cursor)
    /\ ~LineAt(tree_lines, app.cursor).expandable
    /\ LineAt(tree_lines, app.cursor).path \in app.expansion

FirstStateHasNoDiff ==
    /\ Painted /\ app.current_state = 0 =>
          \A i \in 1..Len(tree_lines) : tree_lines[i].diff = "Unchanged"
    /\ Painted /\ app.current_state = 1 /\ app.auto_expand =>
          KeyLeft(app, states).expansion = {}

\* C8 witness: PrevState came back to index 0 with auto-expand on from a
\* frame that showed changes under an open container.
ReturnedToFirstState ==
    /\ pc = "frame"
    /\ event.code = "Left"
    /\ app.current_state = 0
    /\ app.auto_expand
    /\ \E i \in 1..Len(tree_lines) :
          tree_lines[i].diff # "Unchanged" /\ tree_lines[i].depth > 0

\* C9: ExpandAll leaves the expansion set equal to the set before united
\* with the paths of the expandable lines of the frame, a superset of the
\* set before.
ExpandAllIsUnion ==
    [][ExpandAll =>
          /\ app'.expansion =
                 app.expansion
                 \cup {tree_lines[i].path :
                          i \in {j \in 1..Len(tree_lines) : tree_lines[j].expandable}}
          /\ app.expansion \subseteq app'.expansion]_vars

\* C9 witness: ExpandAll was handled with a path in the set that no line of
\* the frame carries (a stale path), and it opened a container.
ExpandedAllWithStalePath ==
    /\ pc = "frame"
    /\ event.code = "e"
    /\ \E p \in app.expansion : p \notin LinePaths(tree_lines)
    /\ \E i \in 1..Len(tree_lines) :
          tree_lines[i].expandable /\ tree_lines[i].path \in app.expansion
    /\ Len(FrameLines(app, states)) > Len(tree_lines)

\* C10: with auto-expand off, NextState and PrevState leave the expansion
\* set as it is, and stepping to a neighbour and back (a frame in between,
\* on any terminal height) materializes the list painted before.
NavKeepsExpansionWithoutAuto ==
    Painted /\ ~app.auto_expand =>
        /\ KeyLeft(app, states).expansion = app.expansion
        /\ KeyRight(app, states).expansion = app.expansion
        /\ \A terminal_height \in 0..MaxTermHeight :
              /\ app.current_state < LastState =>
                    FrameLines(KeyLeft(FrameApp(KeyRight(app, states), states,
                                                terminal_height), states),
                               states) = tree_lines
              /\ app.current_state > 0 =>
                    FrameLines(KeyRight(FrameApp(KeyLeft(app, states), states,
                                                 terminal_height), states),
                               states) = tree_lines

\* C10 witness: PrevState moved the index with auto-expand off while an open
\* container of the frame before it is no node the new list shows.
NavigatedWithStalePath ==
    /\ pc = "frame"
    /\ event.code = "Left"
    /\ ~app.auto_expand
    /\ app.current_state >= 1
    /\ \E i \in 1..Len(tree_lines) :
          /\ tree_lines[i].expandable
          /\ tree_lines[i].path \in app.expansion
          /\ tree_lines[i].path \notin LinePaths(FrameLines(app, states))

\* A command that only moves the cursor or the window, is not recognised, or
\* quits.
ViewOnlyCommand ==
    \/ CursorUp \/ CursorDown \/ PageUp \/ PageDown \/ Home \/ End
    \/ ScrollUp \/ ScrollDown \/ IgnoredEvent \/ Quit

\* C11: cursor and scroll commands, unrecognised events and Quit leave
\* current_state and the expansion set as they are, and the line list of the
\* next frame is the one painted before the command.
ViewCommandsKeepLines ==
    [][ViewOnlyCommand =>
          /\ app'.current_state = app.current_state
          /\ app'.expansion = app.expansion
          /\ FrameLines(app', states) = tree_lines]_vars

\* C11 witness: Home was handled at an index above 0 with a container open
\* and the cursor came back to line 0.
HomeKeptOpenList ==
    /\ pc = "frame"
    /\ event.code = "Home"
    /\ app.current_state >= 1
    /\ app.expansion # {}
    /\ Len(tree_lines) > 3
    /\ app.scroll_offset > 0

\* C12 as claimed: at every paint on a viewport of at least one row the
\* selected line is inside the window,
\* scroll_offset <= cursor < scroll_offset + viewport_height.
CursorInsideWindow ==
    Painted /\ viewport_height >= 1 =>
        /\ app.scroll_offset <= app.cursor
        /\ app.cursor < app.scroll_offset + viewport_height

\* C13 as claimed: a mouse ScrollDown sets the offset to
\* min(old + 3, max(0, line_count - viewport_height)) and a ScrollUp to
\* max(old - 3, 0), and the frame that follows (on the same terminal height)
\* paints that offset.
ScrollMovesViewByThree ==
    [][ /\ ScrollDown =>
              app'.scroll_offset
                 = Min(app.scroll_offset + 3, Max(0, line_count - viewport_height))
        /\ ScrollUp => app'.scroll_offset = Max(app.scroll_offset - 3, 0)
        /\ Frame /\ event.code \in {"ScrollDown", "ScrollUp"}
                 /\ viewport_height' = viewport_height
              => app'.scroll_offset = app.scroll_offset ]_vars

\* C14: a left click on row r >= 2 that maps to a line selects line
\* scroll_offset + (r - 2) and toggles its path iff the line is expandable;
\* a click on a header row or past the last line leaves the App as it is.
ClickSelectsAndToggles ==
    [][SelectLine =>
          LET r == event'.row
              clicked == app.scroll_offset + (r - 2)
          IN  IF r >= 2 /\ clicked < line_count
              THEN /\ app'.cursor = clicked
                   /\ app'.scroll_offset = app.scroll_offset
                   /\ app'.current_state = app.current_state
                   /\ app'.expansion =
                          IF ~LineAt(tree_lines, clicked).expandable
                          THEN app.expansion
                          ELSE IF LineAt(tree_lines, clicked).path \in app.expansion
                          THEN app.expansion \ {LineAt(tree_lines, clicked).path}
                          ELSE app.expansion \cup {LineAt(tree_lines, clicked).path}
              ELSE app' = app]_vars

\* C14 witness: a click on a content row of a scrolled window selected a
\* container below the window's first line and opened it.
ClickedOpenInScrolledWindow ==
    /\ pc = "frame"
    /\ event.code = "MouseLeftDown"
    /\ event.row >= 3
    /\ app.scroll_offset > 0
    /\ app.cursor = app.scroll_offset + (event.row - 2)
    /\ HasLine(tree_lines, app.cursor)
    /\ LineAt(tree_lines, app.cursor).expandable
    /\ LineAt(tree_lines, app.cursor).path \in app.expansion

\* C15: current_state is always an index of the trace, and NextState and
\* PrevState change it by at most 1.
CurrentStateValid ==
    /\ app.current_state >= 0
    /\ app.current_state < Len(states)
    /\ Painted =>
          /\ KeyLeft(app, states).current_state
                \in {app.current_state - 1, app.current_state}
          /\ KeyRight(app, states).current_state
                \in {app.current_state, app.current_state + 1}

\* C15 witness: NextState was handled and the index is the last of a trace
\* of three snapshots.
ReachedLastState ==
    /\ pc = "frame"
    /\ event.code = "Right"
    /\ Len(states) = 3
    /\ app.current_state = LastState

\* C16 as claimed: no frame, on any terminal height, takes one of the
\* subtractions of ensure_cursor_visible below zero.
NoFrameUnderflow ==
    pc = "frame" =>
        \A terminal_height \in 0..MaxTermHeight :
            ~EnsureUnderflows(ClampCursor(app, Len(FrameLines(app, states))),
                              SatSub(terminal_height, 2))

\* C17: a NextState or PrevState that changes the index leaves cursor and
\* scroll_offset at 0, and the frame that follows paints them at 0 on every
\* terminal height.
NavResetsView ==
    [][(PrevState \/ NextState) /\ app'.current_state # app.current_state =>
          /\ app'.cursor = 0
          /\ app'.scroll_offset = 0
          /\ \A terminal_height \in 0..MaxTermHeight :
                /\ FrameApp(app', states, terminal_height).cursor = 0
                /\ FrameApp(app', states, terminal_height).scroll_offset = 0]_vars

\* C17 witness: NextState moved the index away from a frame whose list was
\* longer than its viewport, and cursor and offset are 0.
NavigatedFromLongList ==
    /\ pc = "frame"
    /\ event.code = "Right"
    /\ app.current_state >= 1
    /\ Len(tree_lines) > viewport_height
    /\ viewport_height >= 3
    /\ tree_lines # FrameLines(app, states)
    /\ app.cursor = 0
    /\ app.scroll_offset = 0

\* A toggle of the expandable line at the cursor: Enter, or a left click on
\* the row that shows the line at the cursor.
ToggleCursorLine ==
    /\ HasLine(tree_lines, app.cursor)
    /\ LineAt(tree_lines, app.cursor).expandable
    /\ \/ ToggleAtCursor
       \/ /\ SelectLine
          /\ event'.row >= 2
          /\ app.scroll_offset + (event'.row - 2) = app.cursor

\* C18: after a toggle of the expandable line at the cursor the next frame,
\* on every terminal height, paints the cursor at the same index, and the
\* line at that index has the path it had before.
ToggleKeepsSelection ==
    [][ToggleCursorLine =>
          /\ \A terminal_height \in 0..MaxTermHeight :
                FrameApp(app', states, terminal_height).cursor = app.cursor
          /\ HasLine(FrameLines(app', states), app.cursor)
          /\ LineAt(FrameLines(app', states), app.cursor).path
                = LineAt(tree_lines, app.cursor).path]_vars

\* C18 witness: Enter closed a container below the first line while one of
\* its descendants stays in the expansion set, and the list shrank.
CollapsedWithOpenDescendant ==
    /\ pc = "frame"
    /\ event.code = "Enter"
    /\ HasLine(tree_lines, app.cursor)
    /\ LineAt(tree_lines, app.cursor).expandable
    /\ LineAt(tree_lines, app.cursor).path \notin app.expansion
    /\ \E p \in app.expansion :
          LineAt(tree_lines, app.cursor).path \in StrictPrefixes(p)
    /\ Len(FrameLines(app, states)) < Len(tree_lines)

\* C19 as claimed: on a viewport of at least three rows a second
\* ensure_cursor_visible leaves the offset the first one painted.
EnsureVisibleIsStable ==
    Painted /\ viewport_height >= 3 =>
        ensure_cursor_visible(app, viewport_height).scroll_offset
            = app.scroll_offset

====
